---- MODULE Spec2Model ----
(***************************************************************************)
(* State-machine model of jupyterhub/orm.py (Server, Proxy, User) and of   *)
(* the MockHubApp start/stop harness of jupyterhub/tests/mocking.py.       *)
(*                                                                         *)
(* Coroutines (tornado gen.coroutine) are modelled one action per stretch  *)
(* of code between two yields: everything between two suspension points    *)
(* runs atomically on the event loop, other coroutines interleave only at  *)
(* the yields.                                                             *)
(***************************************************************************)
EXTENDS Integers, Sequences, FiniteSets, TLC

\* ------------------------------------------------------------------ bounds
NumUsers == 2       \* User rows in the database
MaxSpawns == 2      \* User.spawn calls made in one run of the hub process
MaxTasks == 2       \* coroutines in flight on the event loop at one time
MaxTimeout == 2     \* largest timeout a caller passes to wait_up explicitly
MaxRuns == 2        \* MockHubApp.start calls made on one application
MaxLen == 2         \* longest username or password given to mock_authenticate

\* --------------------------------------------------------------- constants
None == 0           \* an absent reference (NULL column, spawner = None)
utcnow == 1         \* datetime.utcnow() in this run; 0 stamps an earlier run
DefaultTimeout == 10 \* wait_up(self, timeout=10, http=False)
EvtTimeout == 5     \* evt.wait(timeout=5)

Users == 1..NumUsers
ServerIds == 1..(NumUsers + MaxSpawns)

VARIABLES
    servers,        \* the servers table: sequence of Server rows, index = id
    server,         \* User.server of each user (a Server id or None)
    state,          \* User.state of each user (in-memory attribute)
    last_activity,  \* User.last_activity of each user
    spawner,        \* User.spawner: process-local spawner object, or None
    db_users,       \* the committed users rows
    sp_proc,        \* per spawner object: its process
    sp_pid,         \* per spawner object: the pid its state blob holds
    sp_polling,     \* per spawner object: periodic polling is on
    routes,         \* the proxy's route table, by base path (= user)
    pc_spawn,       \* position of the spawn coroutine of each user
    spawn_local,    \* the local variable `spawner` of the latest spawn call
    wait_fut,       \* the wait_up future that coroutine is suspended on
    pc_stop,        \* position of the stop coroutine of each user
    stop_fut,       \* the spawner object whose poll()/stop() it awaits
    req,            \* add_user / delete_user request in flight, per user
    futures,        \* add_all_users: the list `futures`
    pc_aau,         \* add_all_users: position
    aau_idx,        \* add_all_users: index of the future being awaited
    ret,            \* what the step just taken returned, raised or awaits
    called,         \* the calls that step made on its collaborators, in order
    auth_token,     \* Proxy.auth_token
    a_username,     \* mock_authenticate: the username argument
    a_password,     \* mock_authenticate: the password argument
    a_result,       \* mock_authenticate: what the call returned
    w_server,       \* Server.wait_up alone: the server waited for
    w_args,         \* the arguments wait_up was called with
    w_call,         \* the waiter call wait_up made
    w_listening,    \* something accepts connections on the server's port
    w_listened,     \* a probe of the waiter found the port accepting
    w_elapsed,      \* time-units elapsed in the waiter
    w_pc,           \* position of the wait_up coroutine
    main_pc,        \* MockHubApp: position of the calling (test) thread
    thread_pc,      \* MockHubApp: position of the background thread _start
    evt,            \* the threading.Event of the current start call
    evt_elapsed,    \* time-units elapsed in evt.wait
    io_loop,        \* self.io_loop has been assigned
    callbacks,      \* callbacks queued on the IOLoop
    hub_users,      \* names of the user rows of the application's store
    returned_by,    \* what ended evt.wait of the last start
    runs            \* start calls made so far

vars == << servers, server, state, last_activity, spawner, db_users,
           sp_proc, sp_pid, sp_polling, routes,
           pc_spawn, spawn_local, wait_fut, pc_stop, stop_fut,
           req, futures, pc_aau, aau_idx, ret, called,
           auth_token, a_username, a_password, a_result,
           w_server, w_args, w_call, w_listening, w_listened, w_elapsed, w_pc,
           main_pc, thread_pc, evt, evt_elapsed, io_loop, callbacks,
           hub_users, returned_by, runs >>

\* -------------------------------------------------------------- JSONDict
NullBlob == << >>

process_bind_param(value) ==
    IF value # NullBlob THEN << "json" >> \o value ELSE value

process_result_value(value) ==
    IF value # NullBlob THEN Tail(value) ELSE value

\* ---------------------------------------------------------------- Server
\* url_path_join(base_url, 'user', name) with base_url = '/'
url_path_join(name) == << "user", name >>

\* A Server row made by User.spawn: the column defaults, and a random port
\* (distinct per row).
Server(name, id) ==
    [ proto |-> "http", ip |-> "localhost", port |-> id,
      base_url |-> url_path_join(name) ]

\* Server.host: the ip is rendered '*' when unset.
host(srv) == << srv.proto, IF srv.ip = "" THEN "*" ELSE srv.ip, srv.port >>

\* Server.url
url(srv) == host(srv) \o << srv.base_url >>

\* wait_up that passes the default on whatever the caller asked for
wait_up_default(srv, timeout, http) ==
    IF http
    THEN [ waiter |-> "wait_for_http_server",
           target |-> [ url(srv) EXCEPT ![2] = IF @ = "*" THEN "localhost" ELSE @ ],
           timeout |-> DefaultTimeout ]
    ELSE [ waiter |-> "wait_for_server",
           target |-> << IF srv.ip = "" THEN "localhost" ELSE srv.ip, srv.port >>,
           timeout |-> DefaultTimeout ]

\* The waiter call Server.wait_up makes; timeout None is the default.
wait_up(srv, timeout, http) ==
    LET bound == IF timeout = None THEN DefaultTimeout ELSE timeout IN
    IF http
    THEN [ waiter |-> "wait_for_http_server",
           target |-> [ url(srv) EXCEPT ![2] = IF @ = "*" THEN "localhost" ELSE @ ],
           timeout |-> bound ]
    ELSE [ waiter |-> "wait_for_server",
           target |-> << IF srv.ip = "" THEN "localhost" ELSE srv.ip, srv.port >>,
           timeout |-> bound ]

\* ----------------------------------------------------------------- Proxy
\* db.query(User).first() in place of db.query(User)
UserSeq_first == << 1 >>

\* db.query(User): the user rows, in the order of their ids.
UserSeq == [ i \in 1..NumUsers |-> i ]

Paths == { url_path_join(u) : u \in Users }

\* Proxy.auth_token while nothing has assigned it (the class attribute).
NoToken == << >>

\* Token values.
Tokens == { << "a" >>, << "b" >> }

\* The token the application assigns to its proxy: the configured one, a
\* new random one when none is configured.
proxy_auth_token(configured, random) ==
    IF configured = NoToken THEN random ELSE configured

\* 'token {}'.format(token)
token_format(token) ==
    << "token" >> \o (IF token = NoToken THEN << "None" >> ELSE token)

\* api_request whose header carries the bare token, without the scheme
api_request_bare(path, method, body) ==
    [ method |-> method, path |-> path, body |-> body,
      headers |-> [ Authorization |-> auth_token ] ]

\* The HTTPRequest that api_request hands to client.fetch.
api_request(path, method, body) ==
    [ method |-> method, path |-> path, body |-> body,
      headers |-> [ Authorization |-> token_format(auth_token) ] ]

\* add_user without method='POST': api_request's default method is GET.
add_user_get(u) ==
    api_request(servers[server[u]].base_url, "GET",
                << [ target |-> host(servers[server[u]]), user |-> u ] >>)

\* The request add_user makes for a user.
add_user(u) ==
    api_request(servers[server[u]].base_url, "POST",
                << [ target |-> host(servers[server[u]]), user |-> u ] >>)

\* The request delete_user makes for a user.
delete_user(u) ==
    api_request(servers[server[u]].base_url, "DELETE", << >>)

\* The proxy's route table after it has served a request.
ProxyServe(rt, r) ==
    IF r.method = "POST" THEN [ rt EXCEPT ![r.path] = r.body ]
    ELSE IF r.method = "DELETE" THEN [ rt EXCEPT ![r.path] = << >> ]
    ELSE rt

HasServer(u) == server[u] # None

\* ---------------------------------------------------------------- Spawner
\* The spawner's internal state blob.
get_state(pids, sp) == << pids[sp] >>

clear_state(pids, sp) == [ pids EXCEPT ![sp] = 0 ]

\* poll(): None while the process runs, an exit status otherwise.
poll(sp) == IF sp_proc[sp] = "running" THEN None ELSE 1

\* ------------------------------------------------------ mock_authenticate
\* Character codes: an ASCII letter and a code above 127.
Chars == {97, 233}

Strings == UNION { [ 1..n -> Chars ] : n \in 0..MaxLen }

\* A string argument: a byte string or a text (unicode) string.
StringValues == [ type : {"bytes", "text"}, chars : Strings ]

\* six.text_type
text_type == "text"

\* mock_authenticate that tells text from bytes by the characters
mock_authenticate_ascii(username, password) ==
    IF \E i \in 1..Len(username.chars) : username.chars[i] > 127 THEN "False"
    ELSE IF \E i \in 1..Len(password.chars) : password.chars[i] > 127 THEN "False"
    ELSE IF password = username THEN "True"
    ELSE "None"

\* Lines 20-29: False for a text argument, True for equal arguments, and
\* otherwise the function ends without a return (None).
mock_authenticate(username, password) ==
    IF username.type = text_type THEN "False"
    ELSE IF password.type = text_type THEN "False"
    ELSE IF password = username THEN "True"
    ELSE "None"

\* ---------------------------------------------------------------- session
\* db.commit() flushes every dirty attribute of every row of the session.
Commit(srv, st, la) ==
    [ u \in Users |-> [ server |-> srv[u],
                        state |-> process_bind_param(st[u]),
                        last_activity |-> la[u] ] ]

Event(op, u, outcome) == [ op |-> op, user |-> u, outcome |-> outcome ]

wait_vars == << w_server, w_args, w_call, w_listening, w_listened, w_elapsed,
               w_pc >>
hub_vars == << main_pc, thread_pc, evt, evt_elapsed, io_loop, callbacks,
              hub_users, returned_by, runs >>
orm_vars == << servers, server, state, last_activity, spawner, db_users,
              sp_proc, sp_pid, sp_polling, routes,
              pc_spawn, spawn_local, wait_fut, pc_stop, stop_fut,
              req, futures, pc_aau, aau_idx >>
auth_vars == << auth_token, a_username, a_password, a_result >>
spawn_vars == << pc_spawn, spawn_local, wait_fut >>
stop_vars == << pc_stop, stop_fut >>
proxy_vars == << routes, req, futures, pc_aau, aau_idx >>
user_vars == << server, state, last_activity, db_users >>
spawner_vars == << sp_proc, sp_pid, sp_polling >>

InFlight ==
    Cardinality({ u \in Users : pc_spawn[u] # "idle" })
    + Cardinality({ u \in Users : pc_stop[u] # "idle" })
    + Cardinality({ u \in Users : req[u] # << >> })
    + (IF pc_aau # "idle" THEN 1 ELSE 0)

CanCall == InFlight < MaxTasks

\* spawn is not suspended on a wait_up.
NoFuture == [ target |-> None, result |-> "none" ]

\* ------------------------------------------------------------------ Init
\* No wait_up call has been made.
WaitIdle ==
    /\ w_server = Server(1, 1)
    /\ w_args = [ timeout |-> None, http |-> FALSE ]
    /\ w_call = wait_up(w_server, None, FALSE)
    /\ w_listening = FALSE
    /\ w_listened = FALSE
    /\ w_elapsed = 0
    /\ w_pc = "idle"

\* mock_authenticate has not been called.
AuthIdle ==
    /\ a_username = [ type |-> "bytes", chars |-> << >> ]
    /\ a_password = [ type |-> "bytes", chars |-> << >> ]
    /\ a_result = "none"

\* The application has assigned its proxy a new random token.
TokenSet == auth_token = proxy_auth_token(NoToken, << "a" >>)

\* The application has been constructed and not started.
HubIdle ==
    /\ main_pc = "idle"
    /\ thread_pc = "none"
    /\ evt = FALSE
    /\ evt_elapsed = 0
    /\ io_loop = FALSE
    /\ callbacks = << >>
    /\ hub_users = << >>
    /\ returned_by = << >>
    /\ runs = 0

\* The database as an earlier run of the hub left it: one Server row per
\* user, still referenced by the user or not; no spawner object survives a
\* restart of the hub.
OrmInit ==
    /\ servers = [ s \in Users |-> Server(s, s) ]
    /\ server \in [ Users -> {None} \cup Users ]
    /\ \A u \in Users : server[u] \in {None, u}
    /\ state = [ u \in Users |-> IF server[u] = None THEN NullBlob ELSE << u >> ]
    /\ last_activity = [ u \in Users |-> 0 ]
    /\ spawner = [ u \in Users |-> None ]
    /\ db_users = Commit(server, state, last_activity)
    /\ sp_proc = [ s \in ServerIds |-> "none" ]
    /\ sp_pid = [ s \in ServerIds |-> 0 ]
    /\ sp_polling = [ s \in ServerIds |-> FALSE ]
    /\ pc_spawn = [ u \in Users |-> "idle" ]
    /\ spawn_local = [ u \in Users |-> None ]
    /\ wait_fut = [ u \in Users |-> NoFuture ]
    /\ pc_stop = [ u \in Users |-> "idle" ]
    /\ stop_fut = [ u \in Users |-> None ]
    /\ req = [ u \in Users |-> << >> ]
    /\ futures = << >>
    /\ pc_aau = "idle"
    /\ aau_idx = 0
    /\ ret = Event("init", None, "ok")
    /\ called = << >>

\* A new proxy: its route table is empty.
NewProxy == routes = [ p \in Paths |-> << >> ]

\* A proxy that outlived the hub: it kept the routes of the running users.
KeptProxy ==
    routes = [ p \in Paths |->
                 IF server[p[2]] # None
                 THEN << [ target |-> host(servers[server[p[2]]]), user |-> p[2] ] >>
                 ELSE << >> ]

Init == OrmInit /\ NewProxy /\ WaitIdle /\ HubIdle /\ AuthIdle /\ TokenSet

\* ------------------------------------------------------------ User.spawn
\* Lines 290-309: create and commit the Server row, construct the spawner,
\* clear its state, call spawner.start() and suspend on it.
spawn_call_uncommitted(u) ==
    /\ pc_spawn[u] = "idle"
    /\ CanCall
    /\ Len(servers) < NumUsers + MaxSpawns
    /\ LET s == Len(servers) + 1
           srv == [ server EXCEPT ![u] = s ]
       IN  /\ servers' = Append(servers, Server(u, s))
           /\ server' = srv
           /\ UNCHANGED db_users
           /\ \/ \* spawner_class(...) raises
                 /\ called' = << "db.add", "spawner_class" >>
                 /\ ret' = Event("spawn", u, "raised_construct")
                 /\ UNCHANGED << spawner, sp_pid, sp_proc, pc_spawn, spawn_local >>
              \/ /\ spawner' = [ spawner EXCEPT ![u] = s ]
                 /\ sp_pid' = clear_state(sp_pid, s)
                 /\ sp_proc' = [ sp_proc EXCEPT ![s] = "starting" ]
                 /\ pc_spawn' = [ pc_spawn EXCEPT ![u] = "start" ]
                 /\ spawn_local' = [ spawn_local EXCEPT ![u] = s ]
                 /\ called' = << "db.add", "spawner_class", "clear_state", "start" >>
                 /\ ret' = Event("spawn", u, "yield_start")
    /\ UNCHANGED << state, last_activity, sp_polling, wait_fut >>
    /\ UNCHANGED << stop_vars, proxy_vars >>
    /\ UNCHANGED << wait_vars, hub_vars, auth_vars >>

spawn_call(u) ==
    /\ pc_spawn[u] = "idle"
    /\ CanCall
    /\ Len(servers) < NumUsers + MaxSpawns
    /\ LET s == Len(servers) + 1
           srv == [ server EXCEPT ![u] = s ]
       IN  /\ servers' = Append(servers, Server(u, s))
           /\ server' = srv
           /\ db_users' = Commit(srv, state, last_activity)
           /\ \/ \* spawner_class(...) raises
                 /\ called' = << "db.add", "db.commit", "spawner_class" >>
                 /\ ret' = Event("spawn", u, "raised_construct")
                 /\ UNCHANGED << spawner, sp_pid, sp_proc, pc_spawn, spawn_local >>
              \/ /\ spawner' = [ spawner EXCEPT ![u] = s ]
                 /\ sp_pid' = clear_state(sp_pid, s)
                 /\ sp_proc' = [ sp_proc EXCEPT ![s] = "starting" ]
                 /\ pc_spawn' = [ pc_spawn EXCEPT ![u] = "start" ]
                 /\ spawn_local' = [ spawn_local EXCEPT ![u] = s ]
                 /\ called' = << "db.add", "db.commit", "spawner_class", "clear_state", "start" >>
                 /\ ret' = Event("spawn", u, "yield_start")
    /\ UNCHANGED << state, last_activity, sp_polling, wait_fut >>
    /\ UNCHANGED << stop_vars, proxy_vars >>
    /\ UNCHANGED << wait_vars, hub_vars, auth_vars >>

\* Lines 309-317: spawner.start() has finished; start polling, store and
\* commit the state, call self.server.wait_up and suspend on it.
spawn_started_polls_anyway(u) ==
    /\ pc_spawn[u] = "start"
    /\ LET sp == spawn_local[u] IN
       \/ \* spawner.start() raised
          /\ sp_proc' = [ sp_proc EXCEPT ![sp] = "none" ]
          /\ pc_spawn' = [ pc_spawn EXCEPT ![u] = "idle" ]
          /\ sp_polling' = [ sp_polling EXCEPT ![sp] = TRUE ]
          /\ called' = << "start_polling" >>
          /\ ret' = Event("spawn", u, "raised_start")
          /\ UNCHANGED << sp_pid, state, last_activity, db_users, wait_fut >>
       \/ LET pids == [ sp_pid EXCEPT ![sp] = sp ]
              st == [ state EXCEPT ![u] = get_state(pids, sp) ]
              la == [ last_activity EXCEPT ![u] = utcnow ]
          IN  /\ sp_proc' = [ sp_proc EXCEPT ![sp] = "running" ]
              /\ sp_pid' = pids
              /\ sp_polling' = [ sp_polling EXCEPT ![sp] = TRUE ]
              /\ state' = st
              /\ last_activity' = la
              /\ \/ \* db.commit() raises
                    /\ pc_spawn' = [ pc_spawn EXCEPT ![u] = "idle" ]
                    /\ called' = << "start_polling", "get_state", "db.commit" >>
                    /\ ret' = Event("spawn", u, "raised_commit")
                    /\ UNCHANGED << db_users, wait_fut >>
                 \/ /\ db_users' = Commit(server, st, la)
                    /\ IF server[u] = None
                       THEN \* self.server is None: AttributeError
                            /\ pc_spawn' = [ pc_spawn EXCEPT ![u] = "idle" ]
                            /\ called' = << "start_polling", "get_state", "db.commit" >>
                            /\ ret' = Event("spawn", u, "raised_attribute")
                            /\ UNCHANGED wait_fut
                       ELSE /\ pc_spawn' = [ pc_spawn EXCEPT ![u] = "wait_up" ]
                            /\ wait_fut' = [ wait_fut EXCEPT ![u] =
                                   [ target |-> server[u], result |-> "pending" ] ]
                            /\ called' = << "start_polling", "get_state", "db.commit", "wait_up" >>
                            /\ ret' = Event("spawn", u, "yield_wait_up")
    /\ UNCHANGED << servers, server, spawner, spawn_local >>
    /\ UNCHANGED << stop_vars, proxy_vars >>
    /\ UNCHANGED << wait_vars, hub_vars, auth_vars >>

spawn_started(u) ==
    /\ pc_spawn[u] = "start"
    /\ LET sp == spawn_local[u] IN
       \/ \* spawner.start() raised
          /\ sp_proc' = [ sp_proc EXCEPT ![sp] = "none" ]
          /\ pc_spawn' = [ pc_spawn EXCEPT ![u] = "idle" ]
          /\ called' = << >>
          /\ ret' = Event("spawn", u, "raised_start")
          /\ UNCHANGED << sp_pid, sp_polling, state, last_activity, db_users, wait_fut >>
       \/ LET pids == [ sp_pid EXCEPT ![sp] = sp ]
              st == [ state EXCEPT ![u] = get_state(pids, sp) ]
              la == [ last_activity EXCEPT ![u] = utcnow ]
          IN  /\ sp_proc' = [ sp_proc EXCEPT ![sp] = "running" ]
              /\ sp_pid' = pids
              /\ sp_polling' = [ sp_polling EXCEPT ![sp] = TRUE ]
              /\ state' = st
              /\ last_activity' = la
              /\ \/ \* db.commit() raises
                    /\ pc_spawn' = [ pc_spawn EXCEPT ![u] = "idle" ]
                    /\ called' = << "start_polling", "get_state", "db.commit" >>
                    /\ ret' = Event("spawn", u, "raised_commit")
                    /\ UNCHANGED << db_users, wait_fut >>
                 \/ /\ db_users' = Commit(server, st, la)
                    /\ IF server[u] = None
                       THEN \* self.server is None: AttributeError
                            /\ pc_spawn' = [ pc_spawn EXCEPT ![u] = "idle" ]
                            /\ called' = << "start_polling", "get_state", "db.commit" >>
                            /\ ret' = Event("spawn", u, "raised_attribute")
                            /\ UNCHANGED wait_fut
                       ELSE /\ pc_spawn' = [ pc_spawn EXCEPT ![u] = "wait_up" ]
                            /\ wait_fut' = [ wait_fut EXCEPT ![u] =
                                   [ target |-> server[u], result |-> "pending" ] ]
                            /\ called' = << "start_polling", "get_state", "db.commit", "wait_up" >>
                            /\ ret' = Event("spawn", u, "yield_wait_up")
    /\ UNCHANGED << servers, server, spawner, spawn_local >>
    /\ UNCHANGED << stop_vars, proxy_vars >>
    /\ UNCHANGED << wait_vars, hub_vars, auth_vars >>

\* Server.wait_up as awaited by spawn: the readiness waiter observes the
\* server reachable, or gives up with a Timeout.
wait_up_done(u) ==
    /\ pc_spawn[u] = "wait_up"
    /\ wait_fut[u].result = "pending"
    /\ \/ /\ sp_proc[wait_fut[u].target] = "running"
          /\ wait_fut' = [ wait_fut EXCEPT ![u].result = "up" ]
       \/ wait_fut' = [ wait_fut EXCEPT ![u].result = "timeout" ]
    /\ called' = << >>
    /\ ret' = Event("wait_up", u, wait_fut'[u].result)
    /\ UNCHANGED << servers, spawner, pc_spawn, spawn_local >>
    /\ UNCHANGED << user_vars, spawner_vars, stop_vars, proxy_vars >>
    /\ UNCHANGED << wait_vars, hub_vars, auth_vars >>

\* spawn_return that swallows the Timeout of wait_up and returns the user.
spawn_return_swallow(u) ==
    /\ pc_spawn[u] = "wait_up"
    /\ wait_fut[u].result # "pending"
    /\ called' = << >>
    /\ ret' = Event("spawn", u, "ok")
    /\ pc_spawn' = [ pc_spawn EXCEPT ![u] = "idle" ]
    /\ wait_fut' = [ wait_fut EXCEPT ![u] = NoFuture ]
    /\ UNCHANGED << servers, spawner, spawn_local >>
    /\ UNCHANGED << user_vars, spawner_vars, stop_vars, proxy_vars >>
    /\ UNCHANGED << wait_vars, hub_vars, auth_vars >>

\* spawn_return that detaches the server again when wait_up timed out.
spawn_return_rollback(u) ==
    /\ pc_spawn[u] = "wait_up"
    /\ wait_fut[u].result # "pending"
    /\ called' = << >>
    /\ ret' = Event("spawn", u,
                    IF wait_fut[u].result = "up" THEN "ok" ELSE "raised_timeout")
    /\ pc_spawn' = [ pc_spawn EXCEPT ![u] = "idle" ]
    /\ server' = IF wait_fut[u].result = "up" THEN server
                 ELSE [ server EXCEPT ![u] = None ]
    /\ db_users' = Commit(server', state, last_activity)
    /\ wait_fut' = [ wait_fut EXCEPT ![u] = NoFuture ]
    /\ UNCHANGED << servers, spawner, spawn_local, state, last_activity >>
    /\ UNCHANGED << spawner_vars, stop_vars, proxy_vars >>
    /\ UNCHANGED << wait_vars, hub_vars, auth_vars >>

\* Lines 317-318: the coroutine resumes from wait_up, which is done with,
\* and returns the user, or the Timeout propagates.
spawn_return(u) ==
    /\ pc_spawn[u] = "wait_up"
    /\ wait_fut[u].result # "pending"
    /\ called' = << >>
    /\ ret' = Event("spawn", u,
                    IF wait_fut[u].result = "up" THEN "ok" ELSE "raised_timeout")
    /\ pc_spawn' = [ pc_spawn EXCEPT ![u] = "idle" ]
    /\ wait_fut' = [ wait_fut EXCEPT ![u] = NoFuture ]
    /\ UNCHANGED << servers, spawner, spawn_local >>
    /\ UNCHANGED << user_vars, spawner_vars, stop_vars, proxy_vars >>
    /\ UNCHANGED << wait_vars, hub_vars, auth_vars >>

\* -------------------------------------------------------------- User.stop
\* stop_cleanup with lines 332 and 333 swapped: the state is stored before
\* it is cleared.
stop_cleanup_stale(u, procs) ==
    LET pids == clear_state(sp_pid, spawner[u])
        st == [ state EXCEPT ![u] = get_state(sp_pid, spawner[u]) ]
        la == [ last_activity EXCEPT ![u] = utcnow ]
        srv == [ server EXCEPT ![u] = None ]
    IN  /\ sp_proc' = procs
        /\ sp_pid' = pids
        /\ state' = st
        /\ last_activity' = la
        /\ server' = srv
        /\ db_users' = Commit(srv, st, la)
        /\ pc_stop' = [ pc_stop EXCEPT ![u] = "idle" ]
        /\ stop_fut' = [ stop_fut EXCEPT ![u] = None ]

\* Lines 332-336: clear the state, store it, detach the server, commit.
stop_cleanup(u, procs) ==
    LET pids == clear_state(sp_pid, spawner[u])
        st == [ state EXCEPT ![u] = get_state(pids, spawner[u]) ]
        la == [ last_activity EXCEPT ![u] = utcnow ]
        srv == [ server EXCEPT ![u] = None ]
    IN  /\ sp_proc' = procs
        /\ sp_pid' = pids
        /\ state' = st
        /\ last_activity' = la
        /\ server' = srv
        /\ db_users' = Commit(srv, st, la)
        /\ pc_stop' = [ pc_stop EXCEPT ![u] = "idle" ]
        /\ stop_fut' = [ stop_fut EXCEPT ![u] = None ]

\* stop_call whose early return comes after the cleanup: without a spawner
\* it still stamps last_activity, detaches the server and commits.
stop_call_cleanup(u) ==
    /\ pc_stop[u] = "idle"
    /\ CanCall
    /\ IF spawner[u] = None
       THEN /\ called' = << >>
            /\ ret' = Event("stop", u, "noop")
            /\ last_activity' = [ last_activity EXCEPT ![u] = utcnow ]
            /\ server' = [ server EXCEPT ![u] = None ]
            /\ db_users' = Commit(server', state, last_activity')
            /\ UNCHANGED << state, sp_polling, pc_stop, stop_fut >>
       ELSE /\ sp_polling' = [ sp_polling EXCEPT ![spawner[u]] = FALSE ]
            /\ pc_stop' = [ pc_stop EXCEPT ![u] = "poll" ]
            /\ stop_fut' = [ stop_fut EXCEPT ![u] = spawner[u] ]
            /\ called' = << >>
            /\ ret' = Event("stop", u, "yield_poll")
            /\ UNCHANGED user_vars
    /\ UNCHANGED << servers, spawner, sp_proc, sp_pid >>
    /\ UNCHANGED << spawn_vars, proxy_vars >>
    /\ UNCHANGED << wait_vars, hub_vars, auth_vars >>

\* Lines 326-329: return at once without a spawner; else stop the polling,
\* call spawner.poll() and suspend on it.
stop_call(u) ==
    /\ pc_stop[u] = "idle"
    /\ CanCall
    /\ IF spawner[u] = None
       THEN /\ called' = << >>
            /\ ret' = Event("stop", u, "noop")
            /\ UNCHANGED << sp_polling, pc_stop, stop_fut >>
       ELSE /\ sp_polling' = [ sp_polling EXCEPT ![spawner[u]] = FALSE ]
            /\ pc_stop' = [ pc_stop EXCEPT ![u] = "poll" ]
            /\ stop_fut' = [ stop_fut EXCEPT ![u] = spawner[u] ]
            /\ called' = << "stop_polling", "poll" >>
            /\ ret' = Event("stop", u, "yield_poll")
    /\ UNCHANGED << servers, spawner, sp_proc, sp_pid >>
    /\ UNCHANGED << user_vars, spawn_vars, proxy_vars >>
    /\ UNCHANGED << wait_vars, hub_vars, auth_vars >>

\* Lines 329-336 when poll() reports an exit status, lines 329-331 when it
\* reports None: call spawner.stop() and suspend on it.
stop_polled_always(u) ==
    /\ pc_stop[u] = "poll"
    /\ IF poll(stop_fut[u]) \in {None, 1}
       THEN /\ pc_stop' = [ pc_stop EXCEPT ![u] = "stop" ]
            /\ stop_fut' = [ stop_fut EXCEPT ![u] = spawner[u] ]
            /\ called' = << "stop" >>
            /\ ret' = Event("stop", u, "yield_stop")
            /\ UNCHANGED << user_vars, sp_proc, sp_pid >>
       ELSE /\ stop_cleanup(u, sp_proc)
            /\ called' = << "clear_state", "get_state", "db.commit" >>
            /\ ret' = Event("stop", u, "ok_exited")
    /\ UNCHANGED << servers, spawner, sp_polling >>
    /\ UNCHANGED << spawn_vars, proxy_vars >>
    /\ UNCHANGED << wait_vars, hub_vars, auth_vars >>

stop_polled_restop(u) ==
    /\ pc_stop[u] = "poll"
    /\ IF poll(stop_fut[u]) = None \/ server[u] = None
       THEN /\ pc_stop' = [ pc_stop EXCEPT ![u] = "stop" ]
            /\ stop_fut' = [ stop_fut EXCEPT ![u] = spawner[u] ]
            /\ called' = << "stop" >>
            /\ ret' = Event("stop", u, "yield_stop")
            /\ UNCHANGED << user_vars, sp_proc, sp_pid >>
       ELSE /\ stop_cleanup(u, sp_proc)
            /\ called' = << "clear_state", "get_state", "db.commit" >>
            /\ ret' = Event("stop", u, "ok_exited")
    /\ UNCHANGED << servers, spawner, sp_polling >>
    /\ UNCHANGED << spawn_vars, proxy_vars >>
    /\ UNCHANGED << wait_vars, hub_vars, auth_vars >>

stop_polled(u) ==
    /\ pc_stop[u] = "poll"
    /\ IF poll(stop_fut[u]) = None
       THEN /\ pc_stop' = [ pc_stop EXCEPT ![u] = "stop" ]
            /\ stop_fut' = [ stop_fut EXCEPT ![u] = spawner[u] ]
            /\ called' = << "stop" >>
            /\ ret' = Event("stop", u, "yield_stop")
            /\ UNCHANGED << user_vars, sp_proc, sp_pid >>
       ELSE /\ stop_cleanup(u, sp_proc)
            /\ called' = << "clear_state", "get_state", "db.commit" >>
            /\ ret' = Event("stop", u, "ok_exited")
    /\ UNCHANGED << servers, spawner, sp_polling >>
    /\ UNCHANGED << spawn_vars, proxy_vars >>
    /\ UNCHANGED << wait_vars, hub_vars, auth_vars >>

\* Lines 331-336: spawner.stop() has terminated the process.
stop_stopped(u) ==
    /\ pc_stop[u] = "stop"
    /\ stop_cleanup(u, [ sp_proc EXCEPT ![stop_fut[u]] = "exited" ])
    /\ called' = << "clear_state", "get_state", "db.commit" >>
    /\ ret' = Event("stop", u, "ok_stopped")
    /\ UNCHANGED << servers, spawner, sp_polling >>
    /\ UNCHANGED << spawn_vars, proxy_vars >>
    /\ UNCHANGED << wait_vars, hub_vars, auth_vars >>

\* ------------------------------------------------- Proxy.add_user / delete
\* Lines 156-169 and 172-178: build the request, hand it to the client and
\* suspend on the fetch; user.server.base_url raises without a server.
proxy_call(u, method) ==
    /\ req[u] = << >>
    /\ CanCall
    /\ IF ~ HasServer(u)
       THEN /\ called' = << >>
            /\ ret' = Event(method, u, "raised_attribute")
            /\ UNCHANGED req
       ELSE /\ req' = [ req EXCEPT ![u] =
                   << IF method = "POST" THEN add_user(u) ELSE delete_user(u) >> ]
            /\ called' = << >>
            /\ ret' = Event(method, u, "yield_fetch")
    /\ UNCHANGED << servers, spawner, routes, futures, pc_aau, aau_idx >>
    /\ UNCHANGED << user_vars, spawner_vars, spawn_vars, stop_vars >>
    /\ UNCHANGED << wait_vars, hub_vars, auth_vars >>

add_user_call(u) == proxy_call(u, "POST")

delete_user_call(u) == proxy_call(u, "DELETE")

\* The proxy answers the request (or the fetch fails) and the coroutine
\* returns (or the HTTP error propagates).
proxy_done(u) ==
    /\ req[u] # << >>
    /\ \/ /\ routes' = ProxyServe(routes, req[u][1])
          /\ called' = << >>
          /\ ret' = Event(req[u][1].method, u, "ok")
       \/ /\ called' = << >>
          /\ ret' = Event(req[u][1].method, u, "raised_http")
          /\ UNCHANGED routes
    /\ req' = [ req EXCEPT ![u] = << >> ]
    /\ UNCHANGED << servers, spawner, futures, pc_aau, aau_idx >>
    /\ UNCHANGED << user_vars, spawner_vars, spawn_vars, stop_vars >>
    /\ UNCHANGED << wait_vars, hub_vars, auth_vars >>

\* ---------------------------------------------------- Proxy.add_all_users
\* Lines 186-193, up to the first yield: one add_user per user row with a
\* server, all submitted before the first is awaited.
add_all_users_call_first ==
    /\ pc_aau = "idle"
    /\ CanCall
    /\ futures = << >>
    /\ LET eligible == SelectSeq(UserSeq, HasServer)
           rows == IF eligible = << >> THEN << >> ELSE << eligible[1] >>
       IN
       /\ futures' = [ i \in 1..Len(rows) |->
                         [ user |-> rows[i], req |-> add_user(rows[i]), st |-> "pending" ] ]
       /\ IF rows = << >>
          THEN /\ called' = << >>
               /\ ret' = Event("add_all_users", None, "ok")
               /\ UNCHANGED << pc_aau, aau_idx >>
          ELSE /\ pc_aau' = "await"
               /\ aau_idx' = 1
               /\ called' = << >>
               /\ ret' = Event("add_all_users", None, "yield_future")
    /\ UNCHANGED << servers, spawner, routes, req >>
    /\ UNCHANGED << user_vars, spawner_vars, spawn_vars, stop_vars >>
    /\ UNCHANGED << wait_vars, hub_vars, auth_vars >>

add_all_users_call ==
    /\ pc_aau = "idle"
    /\ CanCall
    /\ futures = << >>
    /\ LET rows == SelectSeq(UserSeq, HasServer) IN
       /\ futures' = [ i \in 1..Len(rows) |->
                         [ user |-> rows[i], req |-> add_user(rows[i]), st |-> "pending" ] ]
       /\ IF rows = << >>
          THEN /\ called' = << >>
               /\ ret' = Event("add_all_users", None, "ok")
               /\ UNCHANGED << pc_aau, aau_idx >>
          ELSE /\ pc_aau' = "await"
               /\ aau_idx' = 1
               /\ called' = << >>
               /\ ret' = Event("add_all_users", None, "yield_future")
    /\ UNCHANGED << servers, spawner, routes, req >>
    /\ UNCHANGED << user_vars, spawner_vars, spawn_vars, stop_vars >>
    /\ UNCHANGED << wait_vars, hub_vars, auth_vars >>

\* The list `futures` is a local of add_all_users: it is gone once the call
\* has returned and the add_user coroutines it started have all finished.
Locals(fs, pc) ==
    IF pc = "idle" /\ \A i \in 1..Len(fs) : fs[i].st # "pending" THEN << >> ELSE fs

\* One submitted add_user finishes: the proxy has served it, or it failed.
future_done(i) ==
    /\ i \in 1..Len(futures)
    /\ futures[i].st = "pending"
    /\ \E st \in {"ok", "failed"} :
          /\ routes' = IF st = "ok" THEN ProxyServe(routes, futures[i].req) ELSE routes
          /\ futures' = Locals([ futures EXCEPT ![i].st = st ], pc_aau)
          /\ called' = << >>
          /\ ret' = Event("POST", futures[i].user, st)
    /\ UNCHANGED << servers, spawner, req, pc_aau, aau_idx >>
    /\ UNCHANGED << user_vars, spawner_vars, spawn_vars, stop_vars >>
    /\ UNCHANGED << wait_vars, hub_vars, auth_vars >>

\* Lines 192-193: `yield f` resumes with the future's result, and goes on to
\* the next future or returns; a failed future raises out of the loop.
add_all_users_await ==
    /\ pc_aau = "await"
    /\ futures[aau_idx].st # "pending"
    /\ IF futures[aau_idx].st = "failed"
       THEN /\ pc_aau' = "idle"
            /\ aau_idx' = 0
            /\ called' = << >>
            /\ ret' = Event("add_all_users", None, "raised_http")
       ELSE IF aau_idx = Len(futures)
       THEN /\ pc_aau' = "idle"
            /\ aau_idx' = 0
            /\ called' = << >>
            /\ ret' = Event("add_all_users", None, "ok")
       ELSE /\ aau_idx' = aau_idx + 1
            /\ called' = << >>
            /\ ret' = Event("add_all_users", None, "yield_future")
            /\ UNCHANGED pc_aau
    /\ futures' = Locals(futures, pc_aau')
    /\ UNCHANGED << servers, spawner, routes, req >>
    /\ UNCHANGED << user_vars, spawner_vars, spawn_vars, stop_vars >>
    /\ UNCHANGED << wait_vars, hub_vars, auth_vars >>

\* ------------------------------------------------------------ environment
\* A user's server process exits by itself.
proc_exit(s) ==
    /\ sp_proc[s] = "running"
    /\ sp_proc' = [ sp_proc EXCEPT ![s] = "exited" ]
    /\ called' = << >>
    /\ ret' = Event("proc_exit", s, "ok")
    /\ UNCHANGED << servers, spawner, sp_pid, sp_polling >>
    /\ UNCHANGED << user_vars, spawn_vars, stop_vars, proxy_vars >>
    /\ UNCHANGED << wait_vars, hub_vars, auth_vars >>

\* --------------------------------------------------------- Server.wait_up
\* Lines 96-101: hand the server's address and the timeout to the waiter and
\* suspend on it.
\* What socket.create_connection can come to: the connection is accepted by
\* a listening port, refused where nothing listens, or fails with another
\* socket error (errno) in either case.
ConnectOutcomes(listening) ==
    (IF listening THEN {"accepted"} ELSE {"ECONNREFUSED"})
        \cup {"ETIMEDOUT", "EHOSTUNREACH"}

is_up_lenient(outcome) == IF outcome = "accepted" THEN "True" ELSE "False"

\* Server.is_up, lines 105-113, on the outcome of its connection attempt.
is_up(outcome) ==
    IF outcome = "accepted" THEN "True"
    ELSE IF outcome = "ECONNREFUSED" THEN "False"
    ELSE "raised_socket_error"

\* A call of Server.is_up: it is synchronous, one step. The log holds the
\* connection attempt, its address and what it came to.
is_up_call ==
    /\ \E outcome \in ConnectOutcomes(w_listening) :
          /\ called' = << "create_connection",
                          IF w_server.ip = "" THEN "localhost" ELSE w_server.ip,
                          outcome >>
          /\ ret' = Event("is_up", None, is_up(outcome))
    /\ UNCHANGED wait_vars
    /\ UNCHANGED << orm_vars, hub_vars, auth_vars >>

wait_up_call(timeout, http) ==
    /\ w_pc = "idle"
    /\ w_args' = [ timeout |-> timeout, http |-> http ]
    /\ w_call' = wait_up(w_server, timeout, http)
    /\ w_elapsed' = 0
    /\ w_pc' = "waiting"
    /\ called' = << >>
    /\ ret' = Event("wait_up", timeout, "yield_waiter")
    /\ UNCHANGED << w_server, w_listening, w_listened >>
    /\ UNCHANGED << orm_vars, hub_vars, auth_vars >>

\* Something starts to listen on the server's port.
port_opens ==
    /\ ~ w_listening
    /\ w_listening' = TRUE
    /\ called' = << >>
    /\ ret' = Event("listen", None, "ok")
    /\ UNCHANGED << w_server, w_args, w_call, w_listened, w_elapsed, w_pc >>
    /\ UNCHANGED << orm_vars, hub_vars, auth_vars >>

\* wait_for_server / wait_for_http_server: one probe of the target; it
\* finds the server reachable, or a time-unit passes before the next probe.
waiter_probe ==
    /\ w_pc = "waiting"
    /\ w_elapsed < w_call.timeout
    /\ IF w_listening
       THEN /\ w_pc' = "up"
            /\ w_listened' = TRUE
            /\ UNCHANGED w_elapsed
       ELSE /\ w_elapsed' = w_elapsed + 1
            /\ UNCHANGED << w_pc, w_listened >>
    /\ called' = << >>
    /\ ret' = Event("wait_up", None, "probe")
    /\ UNCHANGED << w_server, w_args, w_call, w_listening >>
    /\ UNCHANGED << orm_vars, hub_vars, auth_vars >>

\* The waiter's timeout has elapsed: it raises the timeout failure.
waiter_expires ==
    /\ w_pc = "waiting"
    /\ w_elapsed >= w_call.timeout
    /\ w_pc' = "timeout"
    /\ called' = << >>
    /\ ret' = Event("wait_up", None, "expired")
    /\ UNCHANGED << w_server, w_args, w_call, w_listening, w_listened, w_elapsed >>
    /\ UNCHANGED << orm_vars, hub_vars, auth_vars >>

\* Lines 99 and 101: the yield resumes; wait_up returns, or the waiter's
\* failure propagates to the caller of wait_up.
wait_up_return ==
    /\ w_pc \in {"up", "timeout"}
    /\ w_pc' = IF w_pc = "up" THEN "returned" ELSE "raised_timeout"
    /\ called' = << >>
    /\ ret' = Event("wait_up", None, w_pc')
    /\ UNCHANGED << w_server, w_args, w_call, w_listening, w_listened, w_elapsed >>
    /\ UNCHANGED << orm_vars, hub_vars, auth_vars >>

\* ------------------------------------------------------------- MockHubApp
\* Lines 76-93: make the Event, start the thread, enter evt.wait.
start ==
    /\ main_pc \in {"idle", "stopped"}
    /\ runs < MaxRuns
    /\ runs' = runs + 1
    /\ evt' = FALSE
    /\ evt_elapsed' = 0
    /\ thread_pc' = "io_loop"
    /\ main_pc' = "wait"
    /\ called' = << >>
    /\ ret' = Event("start", None, "wait")
    /\ UNCHANGED << io_loop, callbacks, hub_users, returned_by >>
    /\ UNCHANGED << orm_vars, wait_vars, auth_vars >>

\* Line 78: self.io_loop = IOLoop.current()
start_io_loop ==
    /\ thread_pc = "io_loop"
    /\ io_loop' = TRUE
    /\ thread_pc' = "initialize"
    /\ called' = << >>
    /\ ret' = Event("_start", None, "io_loop")
    /\ UNCHANGED << main_pc, evt, evt_elapsed, callbacks, hub_users, returned_by, runs >>
    /\ UNCHANGED << orm_vars, wait_vars, auth_vars >>

\* Line 80: the application's initialize opens a fresh in-memory store, or
\* raises and ends the thread.
start_initialize ==
    /\ thread_pc = "initialize"
    /\ \/ /\ hub_users' = << >>
          /\ thread_pc' = "add_user"
          /\ called' = << >>
          /\ ret' = Event("_start", None, "initialize")
       \/ /\ thread_pc' = "crashed"
          /\ called' = << >>
          /\ ret' = Event("_start", None, "raised_initialize")
          /\ UNCHANGED hub_users
    /\ UNCHANGED << main_pc, evt, evt_elapsed, io_loop, callbacks, returned_by, runs >>
    /\ UNCHANGED << orm_vars, wait_vars, auth_vars >>

\* _start that commits without having added the user
start_add_user_skip ==
    /\ thread_pc = "add_user"
    /\ thread_pc' = "add_callback"
    /\ called' = << >>
    /\ ret' = Event("_start", None, "commit")
    /\ UNCHANGED << main_pc, evt, evt_elapsed, io_loop, callbacks, hub_users, returned_by, runs >>
    /\ UNCHANGED << orm_vars, wait_vars, auth_vars >>

\* Lines 82-86: add the initial user and commit.
start_add_user ==
    /\ thread_pc = "add_user"
    /\ hub_users' = Append(hub_users, "user")
    /\ thread_pc' = "add_callback"
    /\ called' = << >>
    /\ ret' = Event("_start", None, "commit")
    /\ UNCHANGED << main_pc, evt, evt_elapsed, io_loop, callbacks, returned_by, runs >>
    /\ UNCHANGED << orm_vars, wait_vars, auth_vars >>

\* Line 88: self.io_loop.add_callback(evt.set)
start_add_callback ==
    /\ thread_pc = "add_callback"
    /\ callbacks' = Append(callbacks, "evt.set")
    /\ thread_pc' = "super_start"
    /\ called' = << >>
    /\ ret' = Event("_start", None, "add_callback")
    /\ UNCHANGED << main_pc, evt, evt_elapsed, io_loop, hub_users, returned_by, runs >>
    /\ UNCHANGED << orm_vars, wait_vars, auth_vars >>

\* Line 89: super().start() starts the IOLoop.
start_super_start ==
    /\ thread_pc = "super_start"
    /\ thread_pc' = "loop"
    /\ called' = << >>
    /\ ret' = Event("_start", None, "loop")
    /\ UNCHANGED << main_pc, evt, evt_elapsed, io_loop, callbacks, hub_users, returned_by, runs >>
    /\ UNCHANGED << orm_vars, wait_vars, auth_vars >>

InSeq(x, seq) == \E i \in 1..Len(seq) : seq[i] = x

\* One iteration of the running IOLoop: it runs the callbacks queued so far;
\* io_loop.stop among them ends the loop, and with it the thread.
io_loop_run ==
    /\ thread_pc = "loop"
    /\ callbacks # << >>
    /\ callbacks' = << >>
    /\ evt' = (evt \/ InSeq("evt.set", callbacks))
    /\ thread_pc' = IF InSeq("io_loop.stop", callbacks) THEN "finished" ELSE "loop"
    /\ called' = << >>
    /\ ret' = Event("io_loop", None, "callbacks")
    /\ UNCHANGED << main_pc, evt_elapsed, io_loop, hub_users, returned_by, runs >>
    /\ UNCHANGED << orm_vars, wait_vars, auth_vars >>

\* Line 93: a time-unit of evt.wait(timeout=5) passes without the event set.
evt_wait_tick ==
    /\ main_pc = "wait"
    /\ ~ evt
    /\ evt_elapsed < EvtTimeout
    /\ evt_elapsed' = evt_elapsed + 1
    /\ called' = << >>
    /\ ret' = Event("start", None, "tick")
    /\ UNCHANGED << main_pc, thread_pc, evt, io_loop, callbacks, hub_users, returned_by, runs >>
    /\ UNCHANGED << orm_vars, wait_vars, auth_vars >>

\* Line 93: evt.wait returns, the event set or the timeout expired, and
\* start returns.
evt_wait_return ==
    /\ main_pc = "wait"
    /\ evt \/ evt_elapsed >= EvtTimeout
    /\ main_pc' = "started"
    /\ returned_by' = Append(returned_by, IF evt THEN "event" ELSE "timeout")
    /\ called' = << >>
    /\ ret' = Event("start", None, "returned")
    /\ UNCHANGED << thread_pc, evt, evt_elapsed, io_loop, callbacks, hub_users, runs >>
    /\ UNCHANGED << orm_vars, wait_vars, auth_vars >>

\* stop that joins the thread without having asked its loop to stop
stop_join_only ==
    /\ main_pc = "started"
    /\ IF io_loop
       THEN /\ main_pc' = "join"
            /\ called' = << >>
            /\ ret' = Event("stop", None, "join")
       ELSE /\ main_pc' = "stop_raised"
            /\ called' = << >>
            /\ ret' = Event("stop", None, "raised_attribute")
    /\ UNCHANGED << thread_pc, evt, evt_elapsed, io_loop, callbacks, hub_users, returned_by, runs >>
    /\ UNCHANGED << orm_vars, wait_vars, auth_vars >>

\* Lines 96-97: queue io_loop.stop on self.io_loop and enter the join;
\* self.io_loop raises AttributeError while the thread has not assigned it.
stop ==
    /\ main_pc = "started"
    /\ IF io_loop
       THEN /\ callbacks' = Append(callbacks, "io_loop.stop")
            /\ main_pc' = "join"
            /\ called' = << >>
            /\ ret' = Event("stop", None, "join")
       ELSE /\ main_pc' = "stop_raised"
            /\ called' = << >>
            /\ ret' = Event("stop", None, "raised_attribute")
            /\ UNCHANGED callbacks
    /\ UNCHANGED << thread_pc, evt, evt_elapsed, io_loop, hub_users, returned_by, runs >>
    /\ UNCHANGED << orm_vars, wait_vars, auth_vars >>

\* Line 97: the thread has ended; join and stop return.
stop_join ==
    /\ main_pc = "join"
    /\ thread_pc \in {"finished", "crashed"}
    /\ main_pc' = "stopped"
    /\ called' = << >>
    /\ ret' = Event("stop", None, "returned")
    /\ UNCHANGED << thread_pc, evt, evt_elapsed, io_loop, callbacks, hub_users, returned_by, runs >>
    /\ UNCHANGED << orm_vars, wait_vars, auth_vars >>

\* ------------------------------------------------------ mock_authenticate
\* A call of mock_authenticate(username, password).
mock_authenticate_call ==
    /\ a_result = "none"
    /\ a_result' = mock_authenticate(a_username, a_password)
    /\ called' = << >>
    /\ ret' = Event("mock_authenticate", None, a_result')
    /\ UNCHANGED << auth_token, a_username, a_password >>
    /\ UNCHANGED << orm_vars, wait_vars, hub_vars >>

\* No coroutine is in flight.
Quiescent ==
    /\ \A u \in Users : pc_spawn[u] = "idle" /\ pc_stop[u] = "idle"
    /\ \A u \in Users : req[u] = << >>
    /\ pc_aau = "idle"
    /\ futures = << >>

\* ---------------------------------------------------------------- claims
Raised == {"raised_construct", "raised_start", "raised_commit", "raised_timeout"}

\* The route the proxy should hold for a user with a server.
RouteOf(u) == << [ target |-> host(servers[server[u]]), user |-> u ] >>

Returned == {"ok", "ok_exited", "ok_stopped", "noop"}

\* C1, as stated: once the operations called so far have completed (the
\* last of them returning normally), every user with a server has a route
\* under that server's base path.
C1_RouteForEveryServer ==
    (Quiescent /\ ret.outcome \in Returned) =>
        \A u \in Users :
            HasServer(u) => routes[servers[server[u]].base_url] # << >>

\* C1, amended: when add_all_users returns successfully, no other operation
\* having run since it was called, every user with a server has the route
\* base path -> {target: the server's host, user: the user's name}.
C1_RoutesAfterAddAllUsers ==
    ret = Event("add_all_users", None, "ok") =>
        \A u \in Users :
            HasServer(u) => routes[servers[server[u]].base_url] = RouteOf(u)

\* add_all_users has just registered a server that was spawned in this run.
C1_Witness ==
    /\ ret = Event("add_all_users", None, "ok")
    /\ \E u \in Users :
          /\ server[u] > NumUsers
          /\ routes[servers[server[u]].base_url] = RouteOf(u)

\* C2: when stop completes for a user with a spawner, the server reference
\* is absent (in memory and in the committed row) and the committed state
\* blob is the spawner's state after clear_state, whatever poll reported.
C2_StopDetachesAndClears ==
    \A u \in Users :
        (ret.op = "stop" /\ ret.user = u /\ ret.outcome \in {"ok_exited", "ok_stopped"}) =>
            /\ spawner[u] # None
            /\ server[u] = None
            /\ db_users[u].server = None
            /\ process_result_value(db_users[u].state)
                   = get_state(clear_state(sp_pid, spawner[u]), spawner[u])

\* stop has just completed on a user with a spawner, after terminating the
\* process that poll reported running.
C2_Witness ==
    \E u \in Users :
        /\ ret = Event("stop", u, "ok_stopped")
        /\ server[u] = None
        /\ last_activity[u] = utcnow
        /\ sp_proc[spawner[u]] = "exited"

\* C3: a stop called on a user without a spawner returns at once; the step
\* changes neither the user's attributes, nor the committed rows, nor any
\* spawner, and leaves no poll or stop pending.
C3_StopWithoutSpawnerIsNoop ==
    [][ \A u \in Users :
          (ret'.op = "stop" /\ ret'.user = u /\ pc_stop[u] = "idle" /\ spawner[u] = None) =>
              /\ ret'.outcome = "noop"
              /\ UNCHANGED << server, state, last_activity, db_users, spawner,
                              sp_proc, sp_pid, sp_polling, pc_stop, stop_fut >> ]_vars

\* A no-op stop on a user whose row, loaded after a restart, has a server.
C3_Witness ==
    \E u \in Users :
        /\ ret = Event("stop", u, "noop")
        /\ spawner[u] = None
        /\ server[u] # None
        /\ last_activity[u] # utcnow

\* The i-th registration is the add_user POST for user u.
IsRegistration(i, u) ==
    /\ futures[i].req.method = "POST"
    /\ futures[i].req.path = servers[server[u]].base_url
    /\ futures[i].req.body = RouteOf(u)

\* C4: add_all_users submits exactly one registration for each user row
\* with a server, a POST to the server's base path carrying {target, user},
\* and none for the rows without a server.
C4_OneRegistrationPerServer ==
    /\ pc_aau = "await" =>
          /\ Len(futures) = Cardinality({ u \in Users : HasServer(u) })
          /\ \A u \in Users :
                Cardinality({ i \in 1..Len(futures) : futures[i].user = u })
                    = IF HasServer(u) THEN 1 ELSE 0
          /\ \A i \in 1..Len(futures) : IsRegistration(i, futures[i].user)
    /\ (\A u \in Users : ~ HasServer(u)) => futures = << >>

\* add_all_users is awaiting its registrations; one row has no server.
C4_Witness ==
    /\ pc_aau = "await"
    /\ Len(futures) >= 1
    /\ \E u \in Users : ~ HasServer(u)

\* C5: when spawn returns the user, wait_up has observed the server made by
\* this call reachable, the server is attached, the spawner is attached and
\* was started, and the committed state blob is the spawner's state.
C5_SpawnReturnsRunning ==
    [][ \A u \in Users :
          ret' = Event("spawn", u, "ok") =>
              /\ wait_fut[u] = [ target |-> spawn_local[u], result |-> "up" ]
              /\ server'[u] = spawn_local[u]
              /\ server'[u] # None
              /\ db_users'[u].server = server'[u]
              /\ spawner'[u] = spawn_local[u]
              /\ sp_proc'[spawner'[u]] \in {"running", "exited"}
              /\ sp_pid'[spawner'[u]] # 0
              /\ process_result_value(db_users'[u].state)
                     = get_state(sp_pid', spawner'[u]) ]_vars

\* spawn has just returned a running user.
C5_Witness ==
    \E u \in Users :
        /\ ret = Event("spawn", u, "ok")
        /\ sp_proc[spawner[u]] = "running"

\* C6: when spawn raises (spawner construction, spawner.start, the state
\* commit, the wait_up timeout) the coroutine has ended, the committed row
\* still references the server row this call created, and the spawner this
\* call attached is still attached.
C6_NoRollback ==
    \A u \in Users :
        (ret.op = "spawn" /\ ret.user = u /\ ret.outcome \in Raised) =>
            /\ pc_spawn[u] = "idle"
            /\ server[u] > NumUsers
            /\ servers[server[u]].base_url = url_path_join(u)
            /\ db_users[u].server = server[u]
            /\ ret.outcome = "raised_construct" => server[u] = Len(servers)
            /\ ret.outcome # "raised_construct" =>
                  /\ spawner[u] = spawn_local[u]
                  /\ server[u] = spawn_local[u]

\* The wait_up of a spawn has just timed out on the caller.
C6_Witness ==
    \E u \in Users :
        /\ ret = Event("spawn", u, "raised_timeout")
        /\ db_users[u].server = spawn_local[u]

\* The server rows of this run that a user still holds: the one the user
\* references, and those whose spawner process has not ended.
LiveRows(u) ==
    { s \in 1..Len(servers) :
        /\ s > NumUsers
        /\ servers[s].base_url = url_path_join(u)
        /\ server[u] = s \/ sp_proc[s] \in {"starting", "running"} }

\* C7, as stated: a user has at most one server row and at most one
\* running spawner process, whatever sequence of spawn and stop was called.
C7_SingleServer ==
    \A u \in Users : Cardinality(LiveRows(u)) <= 1

\* The requests that api_request has issued and that are not yet answered.
Issued ==
    { req[u][1] : u \in { v \in Users : req[v] # << >> } }
        \cup { futures[i].req : i \in 1..Len(futures) }

IsConnect(c) == c = "create_connection"

\* C13: is_up makes one connection attempt; it returns True exactly when the
\* connection was accepted and False exactly when it was refused, and any
\* other socket error is raised to the caller.
C13_IsUpRefusedOrRaise ==
    ret.op = "is_up" =>
        /\ Len(SelectSeq(called, IsConnect)) = 1
        /\ (ret.outcome = "True") <=> (called[3] = "accepted")
        /\ (ret.outcome = "False") <=> (called[3] = "ECONNREFUSED")
        /\ (ret.outcome = "raised_socket_error")
              <=> (called[3] \notin {"accepted", "ECONNREFUSED"})
        /\ ret.outcome \in {"True", "False", "raised_socket_error"}

\* is_up has raised a socket error other than a refused connection, on a
\* port where nothing listens.
C13_Witness ==
    /\ ret.op = "is_up"
    /\ ret.outcome = "raised_socket_error"
    /\ called[3] = "ETIMEDOUT"
    /\ ~ w_listening

\* The place of the first call of c in the log of a step, 0 when the step
\* did not call it.
Pos(log, c) ==
    IF \E i \in 1..Len(log) : log[i] = c
    THEN CHOOSE i \in 1..Len(log) : log[i] = c /\ \A j \in 1..(i - 1) : log[j] # c
    ELSE 0

\* The step called a, and b after it.
Precedes(log, a, b) == 0 < Pos(log, a) /\ Pos(log, a) < Pos(log, b)

\* C14: spawn creates and commits the server row before it starts the
\* spawner, starts the spawner before it stores the state blob, and commits
\* the state blob before it begins the reachability wait; while spawn is
\* suspended in spawner.start the committed row of the user references the
\* new server already.
C14_SpawnOrder ==
    /\ \A u \in Users :
          /\ pc_spawn[u] = "start" =>
                /\ spawn_local[u] \in 1..Len(servers)
                /\ db_users[u].server = spawn_local[u]
                /\ sp_proc[spawn_local[u]] = "starting"
                /\ db_users[u].state # process_bind_param(<< spawn_local[u] >>)
          /\ pc_spawn[u] = "wait_up" =>
                /\ db_users[u].server = spawn_local[u]
                /\ sp_proc[spawn_local[u]] \in {"running", "exited"}
                /\ db_users[u].state = process_bind_param(get_state(sp_pid, spawn_local[u]))
                /\ db_users[u].state = process_bind_param(<< spawn_local[u] >>)
    /\ (ret.op = "spawn" /\ ret.outcome = "yield_start") =>
          /\ Precedes(called, "db.add", "db.commit")
          /\ Precedes(called, "db.commit", "start")
          /\ Pos(called, "get_state") = 0
    /\ (ret.op = "spawn" /\ ret.outcome = "yield_wait_up") =>
          /\ Precedes(called, "get_state", "db.commit")
          /\ Precedes(called, "db.commit", "wait_up")
          /\ Pos(called, "start") = 0

\* One spawn is suspended in spawner.start with its server row committed
\* while another has stored its state and waits for its server.
C14_Witness ==
    \E u, v \in Users :
        /\ pc_spawn[u] = "start"
        /\ db_users[u].server = spawn_local[u]
        /\ pc_spawn[v] = "wait_up"
        /\ db_users[v].state = process_bind_param(<< spawn_local[v] >>)

\* The user's registration is among the submitted ones.
Submitted(fs, u) == \E i \in 1..Len(fs) : fs[i].user = u

\* C15: when add_all_users first suspends, the registration of every user
\* with a server has been submitted and none has been awaited or has
\* completed; and when a registration fails, the registrations of the other
\* users with a server stay submitted.
C15_SubmitAllThenAwait ==
    [][ /\ (pc_aau = "idle" /\ pc_aau' = "await") =>
              /\ \A u \in Users : HasServer(u) => Submitted(futures', u)
              /\ \A i \in 1..Len(futures') : futures'[i].st = "pending"
              /\ aau_idx' = 1
        /\ \A i \in 1..Len(futures) :
              (/\ futures[i].st = "pending"
               /\ pc_aau' = "await"
               /\ futures'[i].st = "failed")
                  => /\ \A u \in Users : HasServer(u) => Submitted(futures', u)
                     /\ \A j \in 1..Len(futures) :
                           j # i => futures'[j] = futures[j]
      ]_vars

\* The first registration has failed while add_all_users awaits it, and the
\* registration of the other user is submitted and pending.
C15_Witness ==
    /\ pc_aau = "await"
    /\ Len(futures) = 2
    /\ futures[1].st = "failed"
    /\ futures[2].st = "pending"
    /\ futures[2].user # futures[1].user

\* C16, as stated: add_all_users completes, with success or with a failure,
\* only when every registration it submitted has completed.
C16_WaitsForAll ==
    (ret.op = "add_all_users" /\ ret.outcome \in {"ok", "raised_http"}) =>
        \A i \in 1..Len(futures) : futures[i].st # "pending"

\* The call is spawner.poll().
IsPoll(c) == c = "poll"

\* C17: stop with a spawner stops the polling and then polls the status,
\* once; when the poll is answered it calls spawner.stop exactly when the
\* status is None, and with an exit status it goes on to the cleanup, the
\* process untouched; it never polls again.
C17_StopIffRunning ==
    [][ \A u \in Users :
          /\ (pc_stop[u] = "idle" /\ pc_stop'[u] = "poll") =>
                /\ Precedes(called', "stop_polling", "poll")
                /\ Len(SelectSeq(called', IsPoll)) = 1
                /\ Pos(called', "stop") = 0
                /\ ~ sp_polling'[spawner[u]]
          /\ (pc_stop[u] = "poll" /\ pc_stop'[u] # "poll") =>
                /\ Pos(called', "poll") = 0
                /\ (Pos(called', "stop") > 0) <=> (poll(stop_fut[u]) = None)
                /\ (pc_stop'[u] = "stop") <=> (poll(stop_fut[u]) = None)
                /\ poll(stop_fut[u]) # None =>
                      /\ pc_stop'[u] = "idle"
                      /\ sp_proc' = sp_proc
          /\ (pc_stop[u] = "stop" /\ pc_stop'[u] # "stop") =>
                /\ Pos(called', "poll") = 0
                /\ Pos(called', "stop") = 0
      ]_vars

\* The poll has reported a running process and stop has called
\* spawner.stop, the polling stopped.
C17_Witness ==
    \E u \in Users :
        /\ ret = Event("stop", u, "yield_stop")
        /\ called = << "stop" >>
        /\ pc_stop[u] = "stop"
        /\ sp_proc[stop_fut[u]] = "running"
        /\ ~ sp_polling[stop_fut[u]]

\* C18, as stated: spawn begins the polling only once the spawner's state
\* has been stored into the user's state, and never when spawner.start
\* failed.
C18_PollingAfterPersist ==
    /\ Pos(called, "start_polling") > 0 => Precedes(called, "get_state", "start_polling")
    /\ (ret.op = "spawn" /\ ret.outcome = "raised_start") => Pos(called, "start_polling") = 0

\* C18, amended: the polling of a spawner begins only in the step of spawn
\* that follows a successful spawner.start, and there before the state is
\* stored and committed, so that it is on also when the commit fails; when
\* spawner.start failed no polling begins.
C18_PollingAfterStart ==
    [][ /\ \A s \in ServerIds :
              (~ sp_polling[s] /\ sp_polling'[s]) =>
                  /\ sp_proc[s] = "starting"
                  /\ sp_proc'[s] = "running"
                  /\ ret'.op = "spawn"
                  /\ ret'.outcome # "raised_start"
                  /\ Precedes(called', "start_polling", "get_state")
                  /\ Precedes(called', "get_state", "db.commit")
        /\ \A u \in Users :
              (pc_spawn[u] = "start" /\ pc_spawn'[u] # "start") =>
                  IF ret'.outcome = "raised_start"
                  THEN /\ sp_polling' = sp_polling
                       /\ Pos(called', "start_polling") = 0
                  ELSE /\ sp_polling'[spawn_local[u]]
                       /\ Pos(called', "start_polling") = 1
      ]_vars

\* The commit of the state has failed and spawn has raised, the polling of
\* the started spawner on and its state not committed.
C18_Witness ==
    \E u \in Users :
        /\ ret = Event("spawn", u, "raised_commit")
        /\ sp_polling[spawn_local[u]]
        /\ sp_proc[spawn_local[u]] = "running"
        /\ db_users[u].state # process_bind_param(state[u])

\* C19, as stated: with spawn and stop of one user interleaved, once both
\* have finished the user is not left with a started, polled spawner
\* process and no server reference, and spawn does not return a user
\* without a server reference.
C19_RaceKeepsLifecycle ==
    \A u \in Users :
        /\ (/\ pc_spawn[u] = "idle"
             /\ pc_stop[u] = "idle"
             /\ server[u] = None
             /\ spawner[u] # None)
                => ~ (sp_proc[spawner[u]] = "running" /\ sp_polling[spawner[u]])
        /\ ret = Event("spawn", u, "ok") => server[u] # None

\* A stop of the user has completed and no spawn was called since: the
\* spawner is still attached and the server reference is absent.
AfterStop(u) == spawner[u] # None /\ server[u] = None

\* C20: a stop called after a completed stop does not return at once but
\* polls again; the poll reports an exit status, spawner.stop is not called
\* again, and when this stop completes the server reference is absent and
\* the stored and the committed state are the cleared state, as before it.
C20_SecondStopKeepsState ==
    [][ \A u \in Users :
          AfterStop(u) =>
              /\ (pc_stop[u] = "idle" /\ pc_stop'[u] # "idle") =>
                    /\ ret' = Event("stop", u, "yield_poll")
                    /\ UNCHANGED << server, state, db_users >>
              /\ (ret'.op = "stop" /\ ret'.user = u) => ret'.outcome # "noop"
              /\ (pc_stop[u] = "poll" /\ pc_stop'[u] # "poll") =>
                    /\ poll(stop_fut[u]) # None
                    /\ Pos(called', "stop") = 0
                    /\ ret' = Event("stop", u, "ok_exited")
                    /\ server'[u] = None
                    /\ db_users'[u].server = None
                    /\ state'[u] = state[u]
                    /\ state'[u] = get_state(clear_state(sp_pid, spawner[u]), spawner[u])
                    /\ db_users'[u].state = db_users[u].state
                    /\ db_users'[u].state = process_bind_param(state'[u])
                    /\ sp_proc' = sp_proc
      ]_vars

\* A second stop has re-entered the body after a completed stop and awaits
\* the poll of the exited process.
C20_Witness ==
    \E u \in Users :
        /\ AfterStop(u)
        /\ pc_stop[u] = "poll"
        /\ ret = Event("stop", u, "yield_poll")
        /\ sp_proc[spawner[u]] = "exited"
        /\ db_users[u].state = process_bind_param(get_state(clear_state(sp_pid, spawner[u]), spawner[u]))

\* The string holds a character outside ASCII.
NonAscii(v) == \E i \in 1..Len(v.chars) : v.chars[i] > 127

\* C11, as stated: a username or password with a non-ASCII character is
\* rejected, equal or not, and every other pair is accepted exactly when the
\* password equals the username.
C11_RejectsNonAscii ==
    a_result # "none" =>
        IF NonAscii(a_username) \/ NonAscii(a_password)
        THEN a_result # "True"
        ELSE (a_result = "True") <=> (a_password.chars = a_username.chars)

\* C11, amended: a username or password of the text (unicode) type is
\* rejected with False, whatever its characters; two byte strings are
\* accepted exactly when they are equal, non-ASCII bytes included, and
\* otherwise the check returns None.
C11_RejectsText ==
    a_result # "none" =>
        IF a_username.type = text_type \/ a_password.type = text_type
        THEN a_result = "False"
        ELSE /\ a_result \in {"True", "None"}
             /\ (a_result = "True") <=> (a_password.chars = a_username.chars)

\* Equal byte strings with a non-ASCII byte have been accepted.
C11_Witness ==
    /\ a_result = "True"
    /\ a_username.type = "bytes"
    /\ NonAscii(a_username)
    /\ a_password = a_username

\* C8: start returns to its caller only once the readiness event is set or
\* the 5 time-units of its wait have passed; the event is set only after the
\* thread has completed initialize and committed exactly one user row, named
\* 'user', so a start that returned on the event sees that row.
C8_SeedPrecedesReadiness ==
    /\ evt => /\ hub_users = << "user" >>
              /\ thread_pc \in {"loop", "finished"}
    /\ main_pc = "started" =>
          /\ returned_by # << >>
          /\ evt \/ evt_elapsed = EvtTimeout
          /\ returned_by[Len(returned_by)] = "event" =>
                /\ evt
                /\ hub_users = << "user" >>

C8_Witness ==
    /\ main_pc = "started"
    /\ ret = Event("start", None, "returned")
    /\ returned_by[Len(returned_by)] = "event"
    /\ evt_elapsed < EvtTimeout
    /\ hub_users = << "user" >>

\* Every start so far returned on the readiness event.
AllOnEvent == \A i \in 1..Len(returned_by) : returned_by[i] = "event"

\* C9 as stated: stop, after a start that returned on the event or on the
\* expiry of its wait, requests the loop to halt and returns with the thread
\* ended and nothing of the run left behind, and the loop of a run halts only
\* on that run's own stop.
C9_StopHaltsAnyStart ==
    /\ main_pc # "stop_raised"
    /\ main_pc = "stopped" => /\ thread_pc \in {"finished", "crashed"}
                              /\ callbacks = << >>
    /\ main_pc \in {"wait", "started"} => thread_pc # "finished"

\* C9, amended: when every start so far returned on the readiness event,
\* stop queues the request to halt, eventually returns, and has then left the
\* thread finished and no callback queued; the thread of the next start
\* seeds its own store, and its loop keeps running until that run's stop.
C9_StopHaltsReadyStart ==
    /\ [](AllOnEvent =>
            /\ main_pc # "stop_raised"
            /\ main_pc = "join" =>
                  \/ InSeq("io_loop.stop", callbacks)
                  \/ thread_pc = "finished"
            /\ main_pc = "stopped" => /\ thread_pc = "finished"
                                      /\ callbacks = << >>
            /\ main_pc = "started" => /\ thread_pc = "loop"
                                      /\ hub_users = << "user" >>)
    /\ (AllOnEvent /\ main_pc = "join") ~> (main_pc = "stopped")

C9_Witness ==
    /\ runs = 2
    /\ Len(returned_by) = 2
    /\ AllOnEvent
    /\ main_pc = "stopped"
    /\ ret = Event("stop", None, "returned")

\* The bound the caller of wait_up configured.
ConfiguredBound ==
    IF w_args.timeout = None THEN DefaultTimeout ELSE w_args.timeout

\* C10: wait_up on a server nothing ever listens on fails with the timeout
\* once the configured bound (10 by default) has elapsed, and not before; it
\* completes successfully only if a probe found the port accepting; after
\* the timeout it does not wait again.
C10_TimeoutAtBound ==
    /\ [](/\ w_pc \in {"up", "returned"} => w_listened
          /\ w_pc \in {"timeout", "raised_timeout"} =>
                /\ w_elapsed = ConfiguredBound
                /\ ~ w_listened
          /\ w_pc = "waiting" => w_elapsed <= ConfiguredBound)
    /\ [][/\ w_pc = "timeout" => w_pc' \in {"timeout", "raised_timeout"}
          /\ w_pc = "raised_timeout" => /\ w_pc' = "raised_timeout"
                                        /\ w_elapsed' = w_elapsed]_vars
    /\ (w_pc = "waiting") ~> (w_listening \/ w_pc = "raised_timeout")

C10_Witness ==
    /\ w_pc = "raised_timeout"
    /\ ~ w_listening
    /\ w_args.timeout = None
    /\ w_elapsed = DefaultTimeout


\* ------------------------------------------------------- specifications
\* The user lifecycle: the spawn and stop coroutines of different users
\* interleave, one user's calls follow one another.
Next ==
    \/ \E u \in Users : pc_stop[u] = "idle" /\ spawn_call(u)
    \/ \E u \in Users : spawn_started(u)
    \/ \E u \in Users : wait_up_done(u)
    \/ \E u \in Users : spawn_return(u)
    \/ \E u \in Users : pc_spawn[u] = "idle" /\ stop_call(u)
    \/ \E u \in Users : stop_polled(u)
    \/ \E u \in Users : stop_stopped(u)
    \/ \E s \in ServerIds : proc_exit(s)

Spec == Init /\ [][Next]_vars

\* The same, and spawn and stop of one user interleave as well.
NextRace ==
    \/ \E u \in Users : spawn_call(u)
    \/ \E u \in Users : spawn_started(u)
    \/ \E u \in Users : wait_up_done(u)
    \/ \E u \in Users : spawn_return(u)
    \/ \E u \in Users : stop_call(u)
    \/ \E u \in Users : stop_polled(u)
    \/ \E u \in Users : stop_stopped(u)
    \/ \E s \in ServerIds : proc_exit(s)

SpecRace == Init /\ [][NextRace]_vars

\* The proxy's operations interleaved, against the user rows as loaded.
NextProxy ==
    \/ \E u \in Users : add_user_call(u)
    \/ \E u \in Users : delete_user_call(u)
    \/ \E u \in Users : proxy_done(u)
    \/ add_all_users_call
    \/ \E i \in 1..NumUsers : future_done(i)
    \/ add_all_users_await

\* The proxy's token is the configured one, or a random one when none is
\* configured.
TokenDrawn ==
    \E configured \in {NoToken} \cup Tokens, random \in Tokens :
        auth_token = proxy_auth_token(configured, random)

InitProxy == OrmInit /\ NewProxy /\ WaitIdle /\ HubIdle /\ AuthIdle /\ TokenDrawn

SpecProxy == InitProxy /\ [][NextProxy]_vars

\* Sequences of whole operations of both classes: an operation is called
\* only once the one before it has completed.
NextSeq ==
    \/ \E u \in Users : Quiescent /\ spawn_call(u)
    \/ \E u \in Users : spawn_started(u)
    \/ \E u \in Users : wait_up_done(u)
    \/ \E u \in Users : spawn_return(u)
    \/ \E u \in Users : Quiescent /\ stop_call(u)
    \/ \E u \in Users : stop_polled(u)
    \/ \E u \in Users : stop_stopped(u)
    \/ \E u \in Users : Quiescent /\ add_user_call(u)
    \/ \E u \in Users : Quiescent /\ delete_user_call(u)
    \/ \E u \in Users : proxy_done(u)
    \/ Quiescent /\ add_all_users_call
    \/ \E i \in 1..NumUsers : future_done(i)
    \/ add_all_users_await

InitSeq ==
    OrmInit /\ KeptProxy /\ WaitIdle /\ HubIdle /\ AuthIdle /\ TokenSet

SpecSeq == InitSeq /\ [][NextSeq]_vars

\* The authentication check, on every pair of arguments.
NextAuth == mock_authenticate_call

InitAuth ==
    /\ OrmInit /\ NewProxy /\ \A u \in Users : server[u] = None
    /\ WaitIdle /\ HubIdle /\ TokenSet
    /\ a_username \in StringValues
    /\ a_password \in StringValues
    /\ a_result = "none"

SpecAuth == InitAuth /\ [][NextAuth]_vars

\* Server.wait_up on its own.
NextWait ==
    \/ \E t \in {None} \cup (1..MaxTimeout), http \in BOOLEAN : wait_up_call(t, http)
    \/ port_opens
    \/ is_up_call
    \/ waiter_probe
    \/ waiter_expires
    \/ wait_up_return

InitWait ==
    /\ OrmInit /\ NewProxy /\ \A u \in Users : server[u] = None
    /\ HubIdle /\ AuthIdle /\ TokenSet
    /\ w_server \in { [ Server(1, 1) EXCEPT !.ip = ip ] : ip \in {"", "localhost"} }
    /\ w_args = [ timeout |-> None, http |-> FALSE ]
    /\ w_call = wait_up(w_server, None, FALSE)
    /\ w_listening = FALSE
    /\ w_listened = FALSE
    /\ w_elapsed = 0
    /\ w_pc = "idle"

\* The waiter's polling and its timeout run on the event loop, and so does
\* the resumption of wait_up.
SpecWait ==
    /\ InitWait
    /\ [][NextWait]_vars
    /\ WF_vars(waiter_probe)
    /\ WF_vars(waiter_expires)
    /\ WF_vars(wait_up_return)

\* MockHubApp.start and MockHubApp.stop: the calling thread, the background
\* thread and the IOLoop it runs.
NextHub ==
    \/ start
    \/ start_io_loop
    \/ start_initialize
    \/ start_add_user
    \/ start_add_callback
    \/ start_super_start
    \/ io_loop_run
    \/ evt_wait_tick
    \/ evt_wait_return
    \/ stop
    \/ stop_join

InitHub ==
    /\ OrmInit /\ NewProxy /\ \A u \in Users : server[u] = None
    /\ WaitIdle
    /\ HubIdle /\ AuthIdle /\ TokenSet

SpecHub == InitHub /\ [][NextHub]_vars

\* The threads are scheduled fairly, initialize terminates (it returns or
\* raises), and a started IOLoop runs the callbacks queued on it.
SpecHubLive ==
    /\ InitHub
    /\ [][NextHub]_vars
    /\ WF_vars(start_io_loop)
    /\ WF_vars(start_initialize)
    /\ WF_vars(start_add_user)
    /\ WF_vars(start_add_callback)
    /\ WF_vars(start_super_start)
    /\ WF_vars(io_loop_run)
    /\ WF_vars(evt_wait_tick)
    /\ WF_vars(evt_wait_return)
    /\ WF_vars(stop_join)

====
